---------------------------- MODULE Spec2Model ----------------------------
(***************************************************************************)
(* A model of llamaquest's rust_core (src/rust_core/src/lib.rs): the four  *)
(* entry points calculate_pathfinding, collision_detection,                *)
(* calculate_field_of_view and PhysicsEngine (update_entity, can_move_to). *)
(*                                                                         *)
(* The library is stateless; the state of the model is, per entry point,   *)
(* the arguments of the call in progress, the position of the call in its  *)
(* code and what it has produced so far.  Coordinates are 0-based as in    *)
(* the source; a Vec<Vec<bool>> is a sequence of rows, so that the source's *)
(* map[y][x] is map[y + 1][x + 1] here.                                     *)
(***************************************************************************)
EXTENDS Integers, Sequences, FiniteSets, TLC

VARIABLES
    \* calculate_pathfinding
    pf_pc,          \* "idle" | "loop" | "done" (Ok(path) returned) | "panic"
    start_x, start_y, end_x, end_y, walkable_map, max_steps,
    steps,          \* max_steps.unwrap_or(1000)
    iter,           \* iterations of `for _ in 0..steps` begun so far
    current_x, current_y,
    path,
    \* calculate_field_of_view
    fov_pc,         \* "idle" | "called" | "done" | "recalled" | "redone"
    origin_x, origin_y, radius, obstacle_map,
    visibility_map, \* the returned map
    prev_radius, prev_visibility_map, \* the call before, kept by the host
    \* PhysicsEngine::can_move_to
    cm_pc,          \* "idle" | "done" (Ok(can_move) returned)
    entity_x, entity_y, entity_width, entity_height, new_x, new_y, obstacles,
    can_move,       \* the returned bool
    \* PhysicsEngine: new, update_entity
    ph_pc,          \* "new" (not constructed) | "ready" | "updated" (Ok)
    gravity, friction,
    position_x, position_y, velocity_x, velocity_y,   \* the host's body
    is_on_ground, delta_time,     \* the arguments of the last call
    prev_velocity_x,              \* velocity_x as the last call received it
    calls                         \* update_entity calls made

pfVars == <<pf_pc, start_x, start_y, end_x, end_y, walkable_map, max_steps,
            steps, iter, current_x, current_y, path>>

fovVars == <<fov_pc, origin_x, origin_y, radius, obstacle_map, visibility_map,
             prev_radius, prev_visibility_map>>

cmVars == <<cm_pc, entity_x, entity_y, entity_width, entity_height,
            new_x, new_y, obstacles, can_move>>

phVars == <<ph_pc, gravity, friction, position_x, position_y,
            velocity_x, velocity_y, is_on_ground, delta_time,
            prev_velocity_x, calls>>

vars == <<pfVars, fovVars, cmVars, phVars>>

(* what a call of one entry point leaves alone: the other entry points *)
notPf == <<fovVars, cmVars, phVars>>
notFov == <<pfVars, cmVars, phVars>>
notCm == <<pfVars, fovVars, phVars>>
notPh == <<pfVars, fovVars, cmVars>>

---------------------------------------------------------------------------
(* Bounds of the inputs the model draws. *)
MaxW == 3
MaxH == 2
MaxStepsArg == 3

(* Option<usize>: None is the empty sequence, Some(n) is <<n>> *)
None == << >>
Some(n) == <<n>>

(* max_steps.unwrap_or(1000) *)
DefaultMaxSteps == 1000

(* A rectangular map of h rows of w cells (h = 0: the empty Vec). *)
Maps(w, h) == [1..h -> [1..w -> BOOLEAN]]

SmallMaps == UNION {Maps(w, h) : w \in 1..MaxW, h \in 1..MaxH}

(* Maps without a cell: no row, or rows of no cell. *)
EmptyMaps == {Maps(0, h) : h \in 0..MaxH}

(* One row of walkable cells, two cells longer than the default step      *)
(* budget can cross.                                                       *)
CorridorLen == DefaultMaxSteps + 2
Corridor == <<[x \in 1..CorridorLen |-> TRUE]>>

---------------------------------------------------------------------------
(* calculate_pathfinding *)

(* lines 28-29: the sign of the move on one axis *)
Direction(from, to) == IF from < to THEN 1 ELSE IF from > to THEN -1 ELSE 0

dx == Direction(start_x, end_x)
dy == Direction(start_y, end_y)

(* lines 41-47: one move towards the end on each axis that still differs *)
NextX == IF current_x # end_x THEN current_x + dx ELSE current_x
NextY == IF current_y # end_y THEN current_y + dy ELSE current_y

(* lines 50-52; reads walkable_map[0], which must exist *)
OutOfBounds(x, y, map) ==
    x < 0 \/ y < 0 \/ x >= Len(map[1]) \/ y >= Len(map)

(* line 57 *)
Walkable(x, y, map) == map[y + 1][x + 1]

(* lines 16-34: the call, up to the push of the start cell *)
CalculatePathfindingCall(sx, sy, ex, ey, map, ms) ==
    /\ pf_pc = "idle"
    /\ start_x' = sx /\ start_y' = sy /\ end_x' = ex /\ end_y' = ey
    /\ walkable_map' = map
    /\ max_steps' = ms
    /\ steps' = IF ms = None THEN DefaultMaxSteps ELSE ms[1]
    /\ iter' = 0
    /\ current_x' = sx /\ current_y' = sy
    /\ path' = << <<sx, sy>> >>
    /\ pf_pc' = "loop"

CallSmall ==
    /\ UNCHANGED notPf
    /\ pf_pc = "idle"
    /\ \E map \in SmallMaps, sx, ex \in 0..MaxW, sy, ey \in 0..MaxH,
          ms \in {None} \cup {Some(n) : n \in 0..MaxStepsArg} :
           CalculatePathfindingCall(sx, sy, ex, ey, map, ms)

CallEmpty ==
    /\ UNCHANGED notPf
    /\ pf_pc = "idle"
    /\ \E map \in UNION EmptyMaps, sx, ex \in 0..1, sy, ey \in 0..1,
          ms \in {None, Some(0)} :
           CalculatePathfindingCall(sx, sy, ex, ey, map, ms)

CallCorridor ==
    /\ UNCHANGED notPf
    /\ pf_pc = "idle"
    /\ \E ms \in {None, Some(0)} :
           CalculatePathfindingCall(0, 0, CorridorLen - 1, 0, Corridor, ms)

pfArgs == <<start_x, start_y, end_x, end_y, walkable_map, max_steps, steps>>

(* line 36: the range 0..steps is exhausted; line 65 *)
LoopExhausted ==
    /\ UNCHANGED notPf
    /\ pf_pc = "loop"
    /\ iter >= steps
    /\ pf_pc' = "done"
    /\ UNCHANGED <<pfArgs, iter, current_x, current_y, path>>

(* lines 37-39: the end is reached; line 65 *)
LoopReachedEnd ==
    /\ UNCHANGED notPf
    /\ pf_pc = "loop"
    /\ iter < steps
    /\ current_x = end_x /\ current_y = end_y
    /\ pf_pc' = "done"
    /\ UNCHANGED <<pfArgs, iter, current_x, current_y, path>>

Moving == pf_pc = "loop" /\ iter < steps
          /\ ~(current_x = end_x /\ current_y = end_y)

(* line 51: walkable_map[0] of an empty Vec panics *)
LoopPanic ==
    /\ UNCHANGED notPf
    /\ Moving
    /\ NextX >= 0 /\ NextY >= 0
    /\ Len(walkable_map) = 0
    /\ current_x' = NextX /\ current_y' = NextY
    /\ pf_pc' = "panic"
    /\ UNCHANGED <<pfArgs, iter, path>>

(* lines 50-54: the moved position is off the map; line 65 *)
LoopBoundaryBreak ==
    /\ UNCHANGED notPf
    /\ Moving
    /\ Len(walkable_map) > 0 \/ NextX < 0 \/ NextY < 0
    /\ OutOfBounds(NextX, NextY, walkable_map)
    /\ current_x' = NextX /\ current_y' = NextY
    /\ pf_pc' = "done"
    /\ UNCHANGED <<pfArgs, iter, path>>

(* lines 57-60: the moved position is not walkable; line 65 *)
LoopBlockedBreak ==
    /\ UNCHANGED notPf
    /\ Moving
    /\ Len(walkable_map) > 0
    /\ ~OutOfBounds(NextX, NextY, walkable_map)
    /\ ~Walkable(NextX, NextY, walkable_map)
    /\ current_x' = NextX /\ current_y' = NextY
    /\ pf_pc' = "done"
    /\ UNCHANGED <<pfArgs, iter, path>>

(* line 62: the moved position joins the path *)
LoopPush ==
    /\ UNCHANGED notPf
    /\ Moving
    /\ Len(walkable_map) > 0
    /\ ~OutOfBounds(NextX, NextY, walkable_map)
    /\ Walkable(NextX, NextY, walkable_map)
    /\ current_x' = NextX /\ current_y' = NextY
    /\ path' = Append(path, <<NextX, NextY>>)
    /\ iter' = iter + 1
    /\ UNCHANGED <<pfArgs, pf_pc>>

PfInit ==
    /\ pf_pc = "idle"
    /\ start_x = 0 /\ start_y = 0 /\ end_x = 0 /\ end_y = 0
    /\ walkable_map = << >>
    /\ max_steps = None
    /\ steps = 0 /\ iter = 0
    /\ current_x = 0 /\ current_y = 0
    /\ path = << >>

PfNext ==
    \/ CallSmall
    \/ CallCorridor
    \/ CallEmpty
    \/ LoopExhausted
    \/ LoopReachedEnd
    \/ LoopPanic
    \/ LoopBoundaryBreak
    \/ LoopBlockedBreak
    \/ LoopPush

---------------------------------------------------------------------------
(* Claims about calculate_pathfinding, over the returned path              *)
(* (pf_pc = "done": line 65, Ok(path)).                                    *)

InGrid(c, map) ==
    /\ c[1] >= 0 /\ c[2] >= 0
    /\ c[2] < Len(map)
    /\ c[1] < Len(map[c[2] + 1])

ValidCell(c, map) == InGrid(c, map) /\ map[c[2] + 1][c[1] + 1]

Abs(n) == IF n < 0 THEN -n ELSE n
Max(a, b) == IF a >= b THEN a ELSE b

Adjacent8(a, b) ==
    /\ a # b
    /\ Abs(a[1] - b[1]) <= 1
    /\ Abs(a[2] - b[2]) <= 1

Chebyshev(a, b) == Max(Abs(a[1] - b[1]), Abs(a[2] - b[2]))

(* a diagonal step from a to b one of whose two corner cells is an        *)
(* unwalkable cell of the map                                             *)
CutsCorner(a, b, map) ==
    /\ Abs(a[1] - b[1]) = 1
    /\ Abs(a[2] - b[2]) = 1
    /\ \/ InGrid(<<b[1], a[2]>>, map) /\ ~map[a[2] + 1][b[1] + 1]
       \/ InGrid(<<a[1], b[2]>>, map) /\ ~map[b[2] + 1][a[1] + 1]

AllWalkable(map) ==
    /\ Len(map) > 0
    /\ \A y \in 1..Len(map) :
        Len(map[y]) > 0 /\ \A x \in 1..Len(map[y]) : map[y][x]

start == <<start_x, start_y>>
end == <<end_x, end_y>>

(* C1: every coordinate of a returned path, the first included, is inside *)
(* the grid and is a walkable cell.                                       *)
C1_PathCellsValid ==
    pf_pc = "done" =>
        \A i \in 1..Len(path) : ValidCell(path[i], walkable_map)

(* C2: every returned path starts at start, ends at end, and each two     *)
(* consecutive elements are 8-adjacent; a search stopped by a blocked     *)
(* cell or by the step budget returns no path.  Stated for the calls      *)
(* whose start and end are walkable cells of the map, where no other      *)
(* claim denies that a path is returned.                                  *)
C2_PathJoinsStartToEnd ==
    (/\ pf_pc = "done"
     /\ ValidCell(start, walkable_map) /\ ValidCell(end, walkable_map)) =>
        /\ path[1] = start
        /\ path[Len(path)] = end
        /\ \A i \in 1..(Len(path) - 1) : Adjacent8(path[i], path[i + 1])

(* C3: a call whose start or end is out of bounds or unwalkable returns   *)
(* a failure and no path: it never ends with Ok(path).                    *)
C3_InvalidEndpointFails ==
    (pf_pc # "idle" /\ (~ValidCell(start, walkable_map)
                        \/ ~ValidCell(end, walkable_map)))
        => pf_pc \notin {"done", "panic"}

(* C4: no returned path takes a diagonal step past an unwalkable corner   *)
(* cell.  Stated for the calls whose start and end are walkable cells of  *)
(* the map.                                                               *)
C4_NoCornerCutting ==
    (/\ pf_pc = "done"
     /\ ValidCell(start, walkable_map) /\ ValidCell(end, walkable_map)) =>
        \A i \in 1..(Len(path) - 1) :
            ~CutsCorner(path[i], path[i + 1], walkable_map)

(* C5: on an all-walkable grid, with in-bounds start and end and          *)
(* max_steps omitted, the returned path has Chebyshev(start, end) + 1     *)
(* coordinates.                                                           *)
C5_ChebyshevLength ==
    (/\ pf_pc = "done"
     /\ AllWalkable(walkable_map)
     /\ InGrid(start, walkable_map) /\ InGrid(end, walkable_map)
     /\ max_steps = None)
        => Len(path) = Chebyshev(start, end) + 1

---------------------------------------------------------------------------
(* calculate_field_of_view *)

(* Bounds of the inputs the model draws. *)
FovDim == 3
MaxObstacles == 1
MaxRadius == 2

(* f32 values are integers in units of 2^-25.  An f32 of magnitude 1/4 or *)
(* more is a multiple of the unit; a smaller one is kept to the nearest   *)
(* unit, which rounds to the same tile.                                   *)
Unit == 33554432

(* angle_rad.cos() and angle_rad.sin() of lines 108, 113, 114, for        *)
(* angle_rad = angle as f32 * PI / 180.0 computed in f32, as IEEE-754     *)
(* single values in units of 2^-25; entry angle + 1 is for angle.         *)
CosTab ==
  <<
    33554432, 33549322, 33533992, 33508446, 33472696, 33426748,
    33370618, 33304322, 33227882, 33141322, 33044664, 32937942,
    32821188, 32694434, 32557722, 32411092, 32254590, 32088262,
    31912162, 31726338, 31530852, 31325760, 31111128, 30887018,
    30653498, 30410642, 30158524, 29897218, 29626804, 29347368,
    29058990, 28761762, 28455772, 28141114, 27817884, 27486180,
    27146106, 26797760, 26441254, 26076690, 25704186, 25323852,
    24935802, 24540158, 24137036, 23726566, 23308868, 22884066,
    22452296, 22013686, 21568374, 21116486, 20658170, 20193562,
    19722800, 19246032, 18763398, 18275052, 17781140, 17281810,
    16777215, 16267510, 15752850, 15233391, 14709295, 14180715,
    13647816, 13110759, 12569709, 12024834, 11476288, 10924254,
    10368889, 9810365, 9248852, 8684523, 8117552, 7548104,
    6976358, 6402486, 5826664, 5249070, 4669874, 4089256,
    3507392, 2924464, 2340640, 1756100, 1171029, 585605,
    -1, -585608, -1171032, -1756103, -2340643, -2924466,
    -3507395, -4089259, -4669878, -5249069, -5826666, -6402488,
    -6976364, -7548107, -8117554, -8684530, -9248855, -9810368,
    -10368891, -10924253, -11476291, -12024837, -12569716, -13110762,
    -13647819, -14180718, -14709294, -15233397, -15752852, -16267516,
    -16777218, -17281808, -17781142, -18275054, -18763404, -19246032,
    -19722806, -20193564, -20658170, -21116492, -21568374, -22013686,
    -22452300, -22884072, -23308870, -23726566, -24137042, -24540160,
    -24935802, -25323854, -25704192, -26076694, -26441254, -26797764,
    -27146108, -27486182, -27817886, -28141120, -28455774, -28761762,
    -29058994, -29347370, -29626804, -29897220, -30158524, -30410642,
    -30653500, -30887020, -31111130, -31325762, -31530854, -31726340,
    -31912160, -32088262, -32254590, -32411094, -32557722, -32694436,
    -32821188, -32937944, -33044664, -33141322, -33227882, -33304322,
    -33370618, -33426748, -33472696, -33508446, -33533992, -33549322,
    -33554432, -33549322, -33533992, -33508446, -33472696, -33426748,
    -33370618, -33304322, -33227882, -33141320, -33044664, -32937942,
    -32821186, -32694434, -32557720, -32411090, -32254588, -32088260,
    -31912162, -31726338, -31530852, -31325760, -31111126, -30887014,
    -30653494, -30410644, -30158522, -29897218, -29626802, -29347366,
    -29058986, -28761756, -28455772, -28141116, -27817884, -27486178,
    -27146104, -26797756, -26441256, -26076690, -25704188, -25323850,
    -24935798, -24540156, -24137032, -23726568, -23308866, -22884068,
    -22452294, -22013682, -21568370, -21116486, -20658172, -20193566,
    -19722794, -19246028, -18763400, -18275042, -17781130, -17281818,
    -16777213, -16267511, -15752854, -15233384, -14709289, -14180713,
    -13647817, -13110764, -12569703, -12024827, -11476289, -10924255,
    -10368878, -9810373, -9248850, -8684524, -8117553, -7548094,
    -6976350, -6402482, -5826664, -5249072, -4669880, -4089249,
    -3507389, -2924460, -2340625, -1756109, -1171026, -585602,
    0, 585619, 1171042, 1756110, 2340642, 2924461,
    3507390, 4089266, 4669880, 5249072, 5826681, 6402484,
    6976367, 7548110, 8117554, 8684540, 9248866, 9810374,
    10368894, 10924256, 11476290, 12024843, 12569718, 13110765,
    13647832, 14180713, 14709304, 15233399, 15752855, 16267512,
    16777228, 17281804, 17781146, 18275056, 18763400, 19246042,
    19722808, 20193566, 20658172, 21116488, 21568370, 22013694,
    22452302, 22884068, 23308878, 23726562, 24137044, 24540162,
    24935804, 25323860, 25704192, 26076696, 26441256, 26797762,
    27146104, 27486188, 27817880, 28141116, 28455772, 28761760,
    29058996, 29347370, 29626806, 29897218, 30158530, 30410646,
    30653502, 30887024, 31111134, 31325766, 31530850, 31726340,
    31912162, 32088262, 32254588, 32411094, 32557724, 32694434,
    32821190, 32937944, 33044666, 33141324, 33227884, 33304322,
    33370616, 33426746, 33472696, 33508446, 33533992, 33549322
  >>

SinTab ==
  <<
    0, 585606, 1171033, 1756103, 2340639, 2924462,
    3507393, 4089257, 4669874, 5249070, 5826666, 6402488,
    6976359, 7548105, 8117552, 8684526, 9248855, 9810367,
    10368890, 10924254, 11476292, 12024833, 12569712, 13110761,
    13647817, 14180716, 14709296, 15233394, 15752853, 16267511,
    16777216, 17281812, 17781140, 18275054, 18763402, 19246034,
    19722800, 20193562, 20658172, 21116488, 21568374, 22013688,
    22452298, 22884068, 23308868, 23726566, 24137038, 24540160,
    24935804, 25323852, 25704186, 26076694, 26441254, 26797762,
    27146106, 27486182, 27817886, 28141116, 28455772, 28761762,
    29058992, 29347368, 29626806, 29897220, 30158524, 30410644,
    30653500, 30887018, 31111128, 31325760, 31530854, 31726338,
    31912162, 32088264, 32254590, 32411094, 32557722, 32694434,
    32821188, 32937942, 33044666, 33141322, 33227882, 33304322,
    33370618, 33426748, 33472696, 33508446, 33533992, 33549322,
    33554432, 33549322, 33533992, 33508446, 33472694, 33426746,
    33370618, 33304322, 33227882, 33141322, 33044664, 32937942,
    32821186, 32694434, 32557722, 32411092, 32254590, 32088262,
    31912160, 31726340, 31530852, 31325760, 31111126, 30887018,
    30653498, 30410642, 30158524, 29897216, 29626804, 29347364,
    29058990, 28761762, 28455770, 28141114, 27817882, 27486180,
    27146102, 26797760, 26441254, 26076688, 25704186, 25323852,
    24935802, 24540154, 24137036, 23726566, 23308864, 22884066,
    22452298, 22013686, 21568368, 21116484, 20658170, 20193556,
    19722798, 19246032, 18763398, 18275046, 17781136, 17281808,
    16777210, 16267509, 15752852, 15233389, 14709294, 14180718,
    13647815, 13110754, 12569708, 12024832, 11476287, 10924253,
    10368891, 9810371, 9248855, 8684522, 8117550, 7548099,
    6976356, 6402480, 5826670, 5249069, 4669877, 4089254,
    3507386, 2924458, 2340631, 1756106, 1171031, 585607,
    -3, -585613, -1171037, -1756112, -2340636, -2924464,
    -3507392, -4089260, -4669882, -5249074, -5826676, -6402486,
    -6976362, -7548104, -8117556, -8684535, -9248861, -9810377,
    -10368889, -10924258, -11476292, -12024838, -12569713, -13110767,
    -13647827, -14180716, -14709299, -15233395, -15752857, -16267514,
    -16777222, -17281820, -17781140, -18275052, -18763402, -19246038,
    -19722804, -20193568, -20658168, -21116490, -21568372, -22013690,
    -22452304, -22884070, -23308874, -23726564, -24137040, -24540158,
    -24935804, -25323856, -25704190, -26076692, -26441252, -26797758,
    -27146110, -27486184, -27817886, -28141122, -28455778, -28761758,
    -29058992, -29347368, -29626804, -29897222, -30158526, -30410644,
    -30653498, -30887016, -31111132, -31325764, -31530854, -31726338,
    -31912164, -32088260, -32254592, -32411094, -32557722, -32694436,
    -32821188, -32937944, -33044666, -33141320, -33227882, -33304324,
    -33370618, -33426748, -33472696, -33508446, -33533992, -33549322,
    -33554432, -33549322, -33533992, -33508446, -33472694, -33426748,
    -33370618, -33304322, -33227882, -33141320, -33044662, -32937944,
    -32821186, -32694432, -32557722, -32411088, -32254588, -32088260,
    -31912160, -31726338, -31530852, -31325758, -31111124, -30887016,
    -30653492, -30410644, -30158520, -29897214, -29626804, -29347368,
    -29058984, -28761766, -28455768, -28141112, -27817886, -27486174,
    -27146100, -26797758, -26441252, -26076692, -25704188, -25323846,
    -24935800, -24540156, -24137028, -23726570, -23308862, -22884064,
    -22452296, -22013678, -21568366, -21116482, -20658168, -20193560,
    -19722802, -19246024, -18763408, -18275050, -17781140, -17281812,
    -16777208, -16267506, -15752849, -15233394, -14709284, -14180708,
    -13647812, -13110744, -12569698, -12024822, -11476299, -10924250,
    -10368888, -9810368, -9248860, -8684519, -8117548, -7548104,
    -6976346, -6402478, -5826659, -5249050, -4669858, -4089260,
    -3507400, -2924471, -2340636, -1756104, -1171036, -585596
  >>

Cos(angle) == CosTab[angle + 1]
Sin(angle) == SinTab[angle + 1]

(* the spacing of f32 values at magnitude m (24 significant bits) *)
F32Ulp(m) ==
    IF m < Unit \div 2 THEN 1
    ELSE IF m < Unit THEN 2
    ELSE IF m < 2 * Unit THEN 4
    ELSE IF m < 4 * Unit THEN 8
    ELSE IF m < 8 * Unit THEN 16
    ELSE IF m < 16 * Unit THEN 32
    ELSE 64

(* rounding to the nearest f32, ties to the even significand *)
F32Round(v) ==
    LET m == IF v < 0 THEN -v ELSE v
        u == F32Ulp(m)
        q == m \div u
        r == m % u
        up == 2 * r > u \/ (2 * r = u /\ q % 2 = 1)
        n == (IF up THEN q + 1 ELSE q) * u
    IN  IF v < 0 THEN -n ELSE n

(* lines 113-114: ray += cos, in f32 *)
F32Add(a, b) == F32Round(a + b)

(* lines 116-117: ray.round() as usize; round() takes ties away from      *)
(* zero and the cast of a negative value saturates at 0                   *)
RoundAsUsize(v) == IF v < 0 THEN 0 ELSE (v + Unit \div 2) \div Unit

(* lines 92-93 *)
Height(map) == Len(map)
Width(map) == IF Len(map) > 0 THEN Len(map[1]) ELSE 0

(* CastRay with the mark of line 125 made at the ray's last step only *)
RECURSIVE CastRayMarkingLastStep(_, _, _, _, _, _)
CastRayMarkingLastStep(angle, step, ray_x, ray_y, rad, map) ==
    IF step > rad THEN {}
    ELSE
        LET rx == F32Add(ray_x, Cos(angle))
            ry == F32Add(ray_y, Sin(angle))
            tile_x == RoundAsUsize(rx)
            tile_y == RoundAsUsize(ry)
        IN  IF tile_y >= Height(map) \/ tile_x >= Width(map) THEN {}
            ELSE IF map[tile_y + 1][tile_x + 1] THEN {<<tile_x, tile_y>>}
            ELSE (IF step = rad THEN {<<tile_x, tile_y>>} ELSE {})
                   \cup CastRayMarkingLastStep(angle, step + 1, rx, ry, rad, map)

(* lines 112-131: the tiles <<x, y>> that the steps of one ray mark, from *)
(* `step` on                                                              *)
RECURSIVE CastRay(_, _, _, _, _, _)
CastRay(angle, step, ray_x, ray_y, rad, map) ==
    IF step > rad THEN {}
    ELSE
        LET rx == F32Add(ray_x, Cos(angle))
            ry == F32Add(ray_y, Sin(angle))
            tile_x == RoundAsUsize(rx)
            tile_y == RoundAsUsize(ry)
        IN  IF tile_y >= Height(map) \/ tile_x >= Width(map) THEN {}
            ELSE IF map[tile_y + 1][tile_x + 1] THEN {<<tile_x, tile_y>>}
            ELSE {<<tile_x, tile_y>>}
                   \cup CastRay(angle, step + 1, rx, ry, rad, map)

(* lines 107-111: a ray per degree, each from the origin.  A ray only     *)
(* ever writes true and reads no visibility, so the tiles the 360 rays    *)
(* mark are the union of what each marks.                                 *)
CastRays(ox, oy, rad, map) ==
    UNION {CastRay(angle, 1, ox * Unit, oy * Unit, rad, map) :
              angle \in 0..359}

(* lines 92-100 and 125: all false, but the origin if it is on the map    *)
(* and the tiles the rays mark                                            *)
CalculateFieldOfView(ox, oy, rad, map) ==
    LET height == Height(map)
        width == Width(map)
        rays == CastRays(ox, oy, rad, map)
    IN  [y \in 1..height |->
            [x \in 1..width |->
                \/ oy < height /\ ox < width /\ y = oy + 1 /\ x = ox + 1
                \/ <<x - 1, y - 1>> \in rays]]

ObstacleCount(map) ==
    Cardinality({c \in (1..Height(map)) \X (1..Width(map)) : map[c[1]][c[2]]})

(* the maps drawn: the empty Vec, and FovDim rows of FovDim cells with at *)
(* most MaxObstacles obstacles                                            *)
ObstacleMaps ==
    {<< >>} \cup {m \in Maps(FovDim, FovDim) : ObstacleCount(m) <= MaxObstacles}

(* the origins drawn: every cell of the map, one origin past its last     *)
(* column and one past its last row                                       *)
Origins ==
    ((0..(FovDim - 1)) \X (0..(FovDim - 1))) \cup {<<FovDim, 0>>, <<0, FovDim>>}

(* a first call: lines 86-90, the arguments are bound *)
FovCall ==
    /\ UNCHANGED notFov
    /\ fov_pc = "idle"
    /\ \E map \in ObstacleMaps, o \in Origins, rad \in 0..MaxRadius :
        /\ origin_x' = o[1] /\ origin_y' = o[2]
        /\ radius' = rad
        /\ obstacle_map' = map
    /\ fov_pc' = "called"
    /\ UNCHANGED <<visibility_map, prev_radius, prev_visibility_map>>

(* the host calls again with the same origin and map and the radius one   *)
(* larger, keeping the map it had (a first call is made at every radius,  *)
(* so every pair of consecutive radii is compared)                        *)
FovCallAgain ==
    /\ UNCHANGED notFov
    /\ fov_pc = "done"
    /\ radius < MaxRadius
    /\ radius' = radius + 1
    /\ prev_radius' = radius
    /\ prev_visibility_map' = visibility_map
    /\ fov_pc' = "recalled"
    /\ UNCHANGED <<origin_x, origin_y, obstacle_map, visibility_map>>

(* lines 91-134: the call computes and returns Ok(visibility_map) *)
FovReturn ==
    /\ UNCHANGED notFov
    /\ fov_pc \in {"called", "recalled"}
    /\ visibility_map' =
          CalculateFieldOfView(origin_x, origin_y, radius, obstacle_map)
    /\ fov_pc' = IF fov_pc = "called" THEN "done" ELSE "redone"
    /\ UNCHANGED <<origin_x, origin_y, radius, obstacle_map,
                   prev_radius, prev_visibility_map>>

FovInit ==
    /\ fov_pc = "idle"
    /\ origin_x = 0 /\ origin_y = 0 /\ radius = 0
    /\ obstacle_map = << >>
    /\ visibility_map = << >>
    /\ prev_radius = 0
    /\ prev_visibility_map = << >>

FovNext ==
    \/ FovCall
    \/ FovCallAgain
    \/ FovReturn

(* the cells a map marks true, as 0-based <<x, y>> *)
Marked(vis) ==
    {c \in (0..(Width(vis) - 1)) \X (0..(Height(vis) - 1)) :
        vis[c[2] + 1][c[1] + 1]}

(* C6: no cell farther from the origin than radius, in Euclidean          *)
(* distance, is marked true.  Stated for the origins that are cells of    *)
(* the map.                                                               *)
C6_WithinRadius ==
    (/\ fov_pc \in {"done", "redone"}
     /\ origin_x < Width(obstacle_map) /\ origin_y < Height(obstacle_map)) =>
        \A c \in Marked(visibility_map) :
            (c[1] - origin_x) * (c[1] - origin_x)
              + (c[2] - origin_y) * (c[2] - origin_y) <= radius * radius

(* C7: with the same origin and map, every cell marked true with a radius *)
(* is marked true with every larger radius.                              *)
C7_RadiusMonotonic ==
    (fov_pc = "redone" /\ prev_radius <= radius) =>
        Marked(prev_visibility_map) \subseteq Marked(visibility_map)

C7_Witness ==
    /\ fov_pc = "redone"
    /\ prev_radius < radius
    /\ prev_radius >= 1
    /\ ObstacleCount(obstacle_map) >= 1
    /\ Cardinality(Marked(prev_visibility_map)) >= 2
    /\ Marked(prev_visibility_map) # Marked(visibility_map)

---------------------------------------------------------------------------
(* collision_detection and PhysicsEngine::can_move_to.  The f32 arguments *)
(* drawn are small integers, on which f32 sums and comparisons are exact. *)

(* Bound of the coordinates drawn. *)
MaxCoord == 2

(* lines 70-82 *)
CollisionDetection(entity1_x, entity1_y, entity1_width, entity1_height, entity2_x, entity2_y, entity2_width, entity2_height) ==
    /\ entity1_x < entity2_x + entity2_width
    /\ entity1_x + entity1_width > entity2_x
    /\ entity1_y < entity2_y + entity2_height
    /\ entity1_y + entity1_height > entity2_y

(* ObstacleCollision with non-strict comparisons: touching boxes collide *)
ObstacleCollisionTouching(ew, eh, nx, ny, obs) ==
    /\ nx <= obs[1] + obs[3]
    /\ nx + ew >= obs[1]
    /\ ny <= obs[2] + obs[4]
    /\ ny + eh >= obs[2]

(* lines 228-232: the test of can_move_to against one obstacle            *)
(* <<obs_x, obs_y, obs_width, obs_height>>                                *)
ObstacleCollision(ew, eh, nx, ny, obs) ==
    /\ nx < obs[1] + obs[3]
    /\ nx + ew > obs[1]
    /\ ny < obs[2] + obs[4]
    /\ ny + eh > obs[2]

(* lines 227-239: the loop from obstacle i on, returning false at the     *)
(* first collision                                                        *)
RECURSIVE CanMoveToFrom(_, _, _, _, _, _)
CanMoveToFrom(i, ew, eh, nx, ny, obs) ==
    IF i > Len(obs) THEN TRUE
    ELSE IF ObstacleCollision(ew, eh, nx, ny, obs[i]) THEN FALSE
    ELSE CanMoveToFrom(i + 1, ew, eh, nx, ny, obs)

(* lines 219-240; entity_x and entity_y are not read *)
CanMoveTo(ex, ey, ew, eh, nx, ny, obs) == CanMoveToFrom(1, ew, eh, nx, ny, obs)

Sizes == {1, 2}
Boxes == (0..MaxCoord) \X (0..MaxCoord) \X Sizes \X Sizes
BoxLists == {<< >>} \cup {<<a>> : a \in Boxes}
                    \cup {<<a, b>> : a \in Boxes, b \in Boxes}

CanMoveToCall ==
    /\ UNCHANGED notCm
    /\ cm_pc = "idle"
    /\ \E ex, ey \in {0, MaxCoord}, ew, eh \in Sizes,
          nx, ny \in 0..MaxCoord, obs \in BoxLists :
        /\ entity_x' = ex /\ entity_y' = ey
        /\ entity_width' = ew /\ entity_height' = eh
        /\ new_x' = nx /\ new_y' = ny
        /\ obstacles' = obs
        /\ can_move' = CanMoveTo(ex, ey, ew, eh, nx, ny, obs)
    /\ cm_pc' = "done"

CmInit ==
    /\ cm_pc = "idle"
    /\ entity_x = 0 /\ entity_y = 0 /\ entity_width = 0 /\ entity_height = 0
    /\ new_x = 0 /\ new_y = 0
    /\ obstacles = << >>
    /\ can_move = TRUE

CmNext == CanMoveToCall

(* the obstacles that overlap, by collision_detection, the entity's box   *)
(* placed at the proposed position                                        *)
Overlapping ==
    {i \in 1..Len(obstacles) :
        CollisionDetection(new_x, new_y, entity_width, entity_height,
                           obstacles[i][1], obstacles[i][2],
                           obstacles[i][3], obstacles[i][4])}

(* C8: can_move_to returns false exactly when some obstacle overlaps, by  *)
(* the strict test of collision_detection, the entity's box placed at the *)
(* proposed position, whatever the entity's current position.            *)
C8_CanMoveToIffNoOverlap ==
    cm_pc = "done" => (can_move <=> Overlapping = {})

(* an obstacle touches the right edge of the proposed box, none overlaps  *)
(* it, and the entity's current position is elsewhere                     *)
C8_Witness ==
    /\ cm_pc = "done"
    /\ can_move
    /\ Len(obstacles) = 2
    /\ obstacles[1][1] = new_x + entity_width
    /\ obstacles[1][2] = new_y
    /\ <<entity_x, entity_y>> # <<new_x, new_y>>

---------------------------------------------------------------------------
(* PhysicsEngine::new and update_entity.  f32 values are decimals:        *)
(* gravity, friction and delta_time in tenths, velocities in hundredths,  *)
(* positions in thousandths, so that every product and sum of             *)
(* update_entity is an exact integer; the rounding of f32 products and    *)
(* sums is not modelled, and NaN and infinities are not drawn.            *)

(* Bounds: the magnitude of a velocity (hundredths), of a position        *)
(* (thousandths), and the calls made on one body.                         *)
MaxVelocity == 1000
MaxPosition == 10000
MaxCalls == 3

(* lines 149-150: unwrap_or(9.8), unwrap_or(0.1), in tenths *)
DefaultGravity == 98
DefaultFriction == 1

UnwrapOr(opt, default) == IF opt = None THEN default ELSE opt[1]

(* f32::max, f32::min *)
F32Max(a, b) == IF a >= b THEN a ELSE b
F32Min(a, b) == IF a <= b THEN a ELSE b

(* lines 162-165 *)
NewVelocityY(vy, grounded, dt) ==
    IF ~grounded THEN vy + gravity * dt ELSE vy

(* NewVelocityX without the clamps .max(0.0) and .min(0.0) *)
NewVelocityXUnclamped(vx, grounded, dt) ==
    IF grounded
    THEN IF vx > 0 THEN vx - friction * dt
         ELSE IF vx < 0 THEN vx + friction * dt
         ELSE vx
    ELSE vx

(* lines 168-176 *)
NewVelocityX(vx, grounded, dt) ==
    IF grounded
    THEN IF vx > 0 THEN F32Max(vx - friction * dt, 0)
         ELSE IF vx < 0 THEN F32Min(vx + friction * dt, 0)
         ELSE vx
    ELSE vx

(* lines 179-180 *)
NewPosition(p, v, dt) == p + v * dt

(* lines 147-152, and the body the host will update *)
New ==
    /\ UNCHANGED notPh
    /\ ph_pc = "new"
    /\ \E g \in {None, Some(0)}, f \in {None, Some(0), Some(10), Some(-10)},
          vx \in {-20, -5, 0, 5, 20} :
        /\ gravity' = UnwrapOr(g, DefaultGravity)
        /\ friction' = UnwrapOr(f, DefaultFriction)
        /\ velocity_x' = vx
    /\ ph_pc' = "ready"
    /\ UNCHANGED <<position_x, position_y, velocity_y, is_on_ground,
                   delta_time, prev_velocity_x, calls>>

InRange(v, bound) == -bound <= v /\ v <= bound

(* lines 155-183: one call, whose result the host stores as the body *)
UpdateEntity ==
    /\ UNCHANGED notPh
    /\ ph_pc \in {"ready", "updated"}
    /\ calls < MaxCalls
    /\ \E grounded \in BOOLEAN, dt \in {-10, 0, 5, 10} :
        LET new_velocity_y == NewVelocityY(velocity_y, grounded, dt)
            new_velocity_x == NewVelocityX(velocity_x, grounded, dt)
            new_position_x == NewPosition(position_x, new_velocity_x, dt)
            new_position_y == NewPosition(position_y, new_velocity_y, dt)
        IN  /\ InRange(new_velocity_x, MaxVelocity)
            /\ InRange(new_velocity_y, MaxVelocity)
            /\ InRange(new_position_x, MaxPosition)
            /\ InRange(new_position_y, MaxPosition)
            /\ is_on_ground' = grounded
            /\ delta_time' = dt
            /\ prev_velocity_x' = velocity_x
            /\ velocity_x' = new_velocity_x
            /\ velocity_y' = new_velocity_y
            /\ position_x' = new_position_x
            /\ position_y' = new_position_y
    /\ calls' = calls + 1
    /\ ph_pc' = "updated"
    /\ UNCHANGED <<gravity, friction>>

PhInit ==
    /\ ph_pc = "new"
    /\ gravity = 0 /\ friction = 0
    /\ position_x = 0 /\ position_y = 0
    /\ velocity_x = 0 /\ velocity_y = 0
    /\ is_on_ground = FALSE
    /\ delta_time = 0
    /\ prev_velocity_x = 0
    /\ calls = 0

PhNext ==
    \/ New
    \/ UpdateEntity

(* C9: a grounded call never turns a positive horizontal velocity         *)
(* negative nor a negative one positive, and leaves 0 at 0; each call's   *)
(* output velocity is the next call's input.                              *)
C9_FrictionKeepsSign ==
    (ph_pc = "updated" /\ is_on_ground) =>
        /\ prev_velocity_x > 0 => velocity_x >= 0
        /\ prev_velocity_x < 0 => velocity_x <= 0
        /\ prev_velocity_x = 0 => velocity_x = 0

(* friction larger than the velocity stopped the body at 0, and a later   *)
(* grounded call left it there                                            *)
C9_Witness ==
    /\ ph_pc = "updated" /\ is_on_ground
    /\ calls >= 2
    /\ prev_velocity_x = 0 /\ velocity_x = 0
    /\ friction * delta_time > 0
    /\ position_x # 0

(* C10: a call with delta_time <= 0 returns an InvalidParameter error,    *)
(* not Ok with a position and a velocity.                                 *)
C10_NonPositiveDeltaTimeFails ==
    (calls > 0 /\ delta_time <= 0) => ph_pc # "updated"

---------------------------------------------------------------------------
Init == PfInit /\ FovInit /\ CmInit /\ PhInit

Next == PfNext \/ FovNext \/ CmNext \/ PhNext

Spec == Init /\ [][Next]_vars

SpecPath == Init /\ [][PfNext]_vars

SpecFov == Init /\ [][FovNext]_vars

SpecCollision == Init /\ [][CmNext]_vars

SpecPhysics == Init /\ [][PhNext]_vars
===========================================================================
